---- MODULE Spec2Model ----
(***************************************************************************)
(* Model of src/src/shuffle_scores.cpp: the pairwise proportion scorer     *)
(* get_proportion, the permutation engine shuffle_scores_internal and the  *)
(* cascading shuffle auto_shuffle.                                         *)
(*                                                                         *)
(* Doubles are modelled exactly: a finite double is a fraction in lowest   *)
(* terms, and NA_REAL, NaN (0/0) and +Inf (x/0) are distinct values.  All  *)
(* counters of the model stay far below 2^26, where two different          *)
(* fractions never round to the same double, so comparing fractions is     *)
(* comparing the doubles the code computes.                                *)
(***************************************************************************)
EXTENDS Integers, Sequences, FiniteSets, TLC

\* Bounds of the model.
NExpr == 2          \* scorer harness: length of the used-subset vector
NUsed == 3          \* engine: length of the used-subset vector
MaxVal == 1         \* expression values are 0..MaxVal
MaxRuns == 2        \* marker lists of the scorer harness: at most MaxRuns runs
MaxMinPairs == 2    \* minpairs is 0..MaxMinPairs
MaxDen == 2         \* thresholds n/d with d in 1..MaxDen
NGenes == 2         \* rows of the matrix
NCols == 2          \* columns (cells) of the matrix
MaxCells == 2       \* requested cells
MaxPairs == 1       \* marker pairs of the engine
MaxIter == 2        \* iter is 0..MaxIter
MaxMinIter == 1     \* miniter is 0..MaxMinIter
MaxN == 3           \* length of auto_shuffle's vector
MaxNits == 2        \* nits of auto_shuffle is 0..MaxNits

\* "was_total % 100 == 0": the period of the early-exit check.
CheckEvery == 100

(***************************************************************************)
(* Doubles.                                                                *)
(***************************************************************************)
NA_REAL == [kind |-> "NA", num |-> 0, den |-> 0]
NaN == [kind |-> "NaN", num |-> 0, den |-> 0]
PosInf == [kind |-> "Inf", num |-> 1, den |-> 0]

RECURSIVE Gcd(_, _)
Gcd(a, b) == IF b = 0 THEN a ELSE Gcd(b, a % b)

\* static_cast<double>(a)/b for an integer a and a count b >= 0.
Quot(a, b) ==
    IF b = 0 THEN (IF a = 0 THEN NaN ELSE PosInf)
    ELSE LET g == Gcd(IF a < 0 THEN -a ELSE a, b)
         IN [kind |-> "num", num |-> a \div g, den |-> b \div g]

\* R's ISNA: true of NA_REAL only, not of another NaN.
ISNA(x) == x.kind = "NA"

\* x < y on doubles: false as soon as one side is NA or NaN.
Less(x, y) ==
    CASE x.kind = "num" /\ y.kind = "num" -> x.num * y.den < y.num * x.den
      [] x.kind = "num" /\ y.kind = "Inf" -> TRUE
      [] OTHER -> FALSE

LessEq(x, y) ==
    CASE x.kind = "num" /\ y.kind = "num" -> x.num * y.den <= y.num * x.den
      [] x.kind = "num" /\ y.kind = "Inf" -> TRUE
      [] OTHER -> FALSE

\* The two directional results of short-cut mode, "return -1" and "return 1".
Below == Quot(-1, 1)
AtOrAbove == Quot(1, 1)

(***************************************************************************)
(* get_proportion.                                                         *)
(***************************************************************************)
CountsTies(first, second) == TRUE

\* "if (first != second)": the pair is compared.
IsCompared(first, second) == first # second

\* "if (first > second) { ++was_first; }"
IsFirstGreater(first, second) == first > second

CheckDueAnyTotal(short_cut, was_total, minpairs) ==
    short_cut /\ was_total % CheckEvery = 0

\* "if (short_cut && was_total >= minpairs && was_total % 100 == 0)"
CheckDue(short_cut, was_total, minpairs) ==
    short_cut /\ was_total >= minpairs /\ was_total % CheckEvery = 0

EarlyBelowNoLeftovers(was_first, leftovers, max_total, threshold) ==
    Less(Quot(was_first + 1, max_total), threshold)

\* "static_cast<double>(was_first + leftovers + 1)/max_total < threshold"
EarlyBelow(was_first, leftovers, max_total, threshold) ==
    Less(Quot(was_first + leftovers + 1, max_total), threshold)

\* "was_first && static_cast<double>(was_first - 1)/max_total > threshold"
EarlyAbove(was_first, max_total, threshold) ==
    was_first # 0 /\ Less(threshold, Quot(was_first - 1, max_total))

FinishLeq(was_first, was_total, minpairs, short_cut, threshold) ==
    IF was_total < minpairs THEN NA_REAL
    ELSE LET output == Quot(was_first, was_total)
         IN IF short_cut
            THEN (IF LessEq(output, threshold) THEN Below ELSE AtOrAbove)
            ELSE output

\* The code after the loop.
Finish(was_first, was_total, minpairs, short_cut, threshold) ==
    IF was_total < minpairs THEN NA_REAL
    ELSE LET output == Quot(was_first, was_total)
         IN IF short_cut
            THEN (IF Less(output, threshold) THEN Below ELSE AtOrAbove)
            ELSE output

\* The loop's state: the two counters, and the value of an early return.
LoopStart == [was_first |-> 0, was_total |-> 0, returned |-> FALSE, value |-> NA_REAL]

\* One iteration of the loop over the marker pairs, for pair m (0-based).
\* `early` is TRUE in the code; FALSE removes the early-exit block.
PairStep(expr, minpairs, marker1, marker2, threshold, early, s, m) ==
    LET short_cut == ~ISNA(threshold)
        npairs == Len(marker1)
        first == expr[marker1[m + 1] + 1]
        second == expr[marker2[m + 1] + 1]
        was_first == IF IsCompared(first, second) /\ IsFirstGreater(first, second)
                     THEN s.was_first + 1 ELSE s.was_first
        was_total == IF IsCompared(first, second)
                     THEN s.was_total + 1 ELSE s.was_total
        leftovers == npairs - m - 1
        max_total == was_total + leftovers
        due == early /\ CheckDue(short_cut, was_total, minpairs)
        t == [was_first |-> was_first, was_total |-> was_total,
              returned |-> FALSE, value |-> NA_REAL]
    IN IF due /\ EarlyBelow(was_first, leftovers, max_total, threshold)
       THEN [t EXCEPT !.returned = TRUE, !.value = Below]
       ELSE IF due /\ EarlyAbove(was_first, max_total, threshold)
       THEN [t EXCEPT !.returned = TRUE, !.value = AtOrAbove]
       ELSE t

\* The loop over pairs lo..hi in list order, stopping at an early return.
\* (Split in halves so that long marker lists do not nest deeply.)
RECURSIVE PairLoop(_, _, _, _, _, _, _, _, _)
PairLoop(expr, minpairs, marker1, marker2, threshold, early, s, lo, hi) ==
    IF lo > hi THEN s
    ELSE IF lo = hi
    THEN PairStep(expr, minpairs, marker1, marker2, threshold, early, s, lo)
    ELSE LET mid == (lo + hi) \div 2
             t == PairLoop(expr, minpairs, marker1, marker2, threshold, early, s, lo, mid)
         IN IF t.returned THEN t
            ELSE PairLoop(expr, minpairs, marker1, marker2, threshold, early, t, mid + 1, hi)

Scorer(expr, minpairs, marker1, marker2, threshold, early) ==
    LET s == PairLoop(expr, minpairs, marker1, marker2, threshold, early,
                      LoopStart, 0, Len(marker1) - 1)
    IN IF s.returned THEN s.value
       ELSE Finish(s.was_first, s.was_total, minpairs, ~ISNA(threshold), threshold)

get_proportion(expr, minpairs, marker1, marker2, threshold) ==
    Scorer(expr, minpairs, marker1, marker2, threshold, TRUE)

\* get_proportion with the early-exit block (lines 20-32) taken out.
get_proportion_full(expr, minpairs, marker1, marker2, threshold) ==
    Scorer(expr, minpairs, marker1, marker2, threshold, FALSE)

(***************************************************************************)
(* State.                                                                  *)
(***************************************************************************)
VARIABLES
    mat,            \* the matrix: mat[col][row], NGenes rows
    mycells,        \* requested cells, 1-based column numbers
    marker1,        \* first marker indices, 0-based into the used subset
    marker2,        \* second marker indices
    used,           \* used gene indices, 0-based rows of the matrix
    nit,            \* iter
    minit,          \* miniter
    minp,           \* minpair
    threshold,      \* the threshold handed to get_proportion by the scorer harness
    pc,             \* position in the running operation
    output,         \* the output vector
    current_exprs,  \* the used-subset buffer
    c,              \* position of cIt in mycells, 1-based
    curscore,       \* the observed score
    newscore,       \* the result of the last short-cut call
    refscore,       \* what the same call returns without the early-exit block
    below,
    total,
    it,
    log,            \* calls made for the current cell, in order
    fetched,        \* cells whose column was fetched, in order
    rng,            \* the shuffle source: permutations drawn, and how many are consumed
    returned,       \* what the call returned
    invec,          \* auto_shuffle: the incoming vector
    niters,         \* auto_shuffle: nits
    outmat,         \* auto_shuffle: the output matrix, column-major
    oIt,            \* auto_shuffle: offset of oIt in outmat
    source,         \* auto_shuffle: where source points
    i,              \* auto_shuffle: loop counter
    op,             \* the operation running
    error,          \* the message of the exception thrown, "" when none
    run,            \* 0 for a single call; 1, or 2 when the call is repeated from the same state of the source
    first_run       \* what the first of two runs left

vars == <<mat, mycells, marker1, marker2, used, nit, minit, minp, threshold, pc,
          output, current_exprs, c, curscore, newscore, refscore, below, total,
          it, log, fetched, rng, returned, invec, niters, outmat, oIt, source, i,
          op, error, run, first_run>>

inputs == <<mat, mycells, marker1, marker2, used, nit, minit, minp, threshold,
            invec, niters>>
scoreVars == <<threshold, refscore>>
cellVars == <<curscore, newscore, below, total, it>>
autoVars == <<invec, niters, outmat, oIt, source, i>>
twinVars == <<op, run, first_run>>

NotReturned == [done |-> FALSE, value |-> <<>>]
Returned(v) == [done |-> TRUE, value |-> v]
NoRun == [pc |-> "none", returned |-> NotReturned, error |-> "", consumed |-> 0]
FreshSource == [drawn |-> <<>>, pos |-> 0]

Values == 0..MaxVal
Rep(x, n) == [k \in 1..n |-> x]
SeqsUpTo(S, n) == UNION {[1..k -> S] : k \in 0..n}
Shuffles(n) == {p \in [1..n -> 1..n] : \A a, b \in 1..n : p[a] = p[b] => a = b}

\* The result of shuffling v when the source's draw is the permutation p.
Rx_shuffle(v, p) == [k \in 1..Len(v) |-> v[p[k]]]

(***************************************************************************)
(* shuffle_scores_internal.                                                *)
(***************************************************************************)
OutOfRangeOffByOne(x, n) == x > n \/ x < 0

\* "m1m >= nused || m1m < 0", "usedex >= ngenes || usedex < 0".
OutOfRange(x, n) == x >= n \/ x < 0

\* Lines 52-73: the message of the first check that throws, "" when none does.
ValidationError ==
    LET npairs == Len(marker1)
        nused == Len(used)
        ngenes == NGenes
        bad == {k \in 1..npairs : OutOfRange(marker1[k], nused)
                                  \/ OutOfRange(marker2[k], nused)}
        k0 == CHOOSE k \in bad : \A j \in bad : k <= j
    IN IF npairs # Len(marker2)
       THEN "vectors of markers must be of the same length"
       ELSE IF bad # {}
       THEN (IF OutOfRange(marker1[k0], nused)
             THEN "first marker indices are out of range"
             ELSE "second marker indices are out of range")
       ELSE IF \E k \in 1..nused : OutOfRange(used[k], ngenes)
       THEN "used gene indices are out of range"
       ELSE ""

\* "Rcpp::NumericVector output(ncells, NA_REAL)": the vectors it may hold.
FreshOutputUnfilled(ncells) == [1..ncells -> {NA_REAL, Quot(0, 1)}]

FreshOutput(ncells) == {Rep(NA_REAL, ncells)}

\* "mat_ptr->get_const_col(*cIt - 1, ...)": the column of a 0-based cell.
get_const_col(cell) == mat[cell + 1]

KeepBuffer(col, buffer) == buffer

\* Lines 84-87: the used genes' values of a column, in the order of `used`.
Gather(col, buffer) == [k \in 1..Len(used) |-> col[used[k] + 1]]

Call(name, cell, expr, thr, result) ==
    [op |-> name, cell |-> cell, expr |-> expr, threshold |-> thr, result |-> result]

\* A draw of the shuffle source for a vector of n elements: the next recorded
\* permutation when the source is replayed, any permutation otherwise.
Draws(n) ==
    IF rng.pos < Len(rng.drawn) THEN {rng.drawn[rng.pos + 1]} ELSE Shuffles(n)

\* The source after drawing p: one more draw is consumed.  The draws are kept
\* only when the call is to be repeated (run > 0).
Drawn(p) ==
    IF rng.pos >= Len(rng.drawn) /\ run > 0
    THEN [drawn |-> Append(rng.drawn, p), pos |-> rng.pos + 1]
    ELSE [rng EXCEPT !.pos = @ + 1]

\* Lines 49-77: the checks, then the allocation of the output and the buffers.
Validate ==
    /\ pc = "start"
    /\ IF ValidationError # ""
       THEN /\ pc' = "error"
            /\ error' = ValidationError
            /\ UNCHANGED <<output, current_exprs, c>>
       ELSE /\ pc' = "cell"
            /\ output' \in FreshOutput(Len(mycells))
            /\ current_exprs' = Rep(0, Len(used))
            /\ c' = 1
            /\ UNCHANGED error
    /\ UNCHANGED <<inputs, scoreVars, cellVars, log, fetched, rng, returned,
                   outmat, oIt, source, i, twinVars>>

\* Lines 80-87: the column of the next cell is fetched and gathered.
Fetch ==
    /\ pc = "cell"
    /\ c <= Len(mycells)
    /\ current_exprs' = Gather(get_const_col(mycells[c] - 1), current_exprs)
    /\ fetched' = Append(fetched, mycells[c])
    /\ log' = <<Call("get_const_col", mycells[c], <<>>, NA_REAL, NA_REAL)>>
    /\ pc' = "observe"
    /\ UNCHANGED <<inputs, scoreVars, cellVars, output, c, rng, returned,
                   outmat, oIt, source, i, twinVars, error>>

SkipNever(s) == FALSE

\* "if (ISNA(curscore)) { continue; }"
Skip(s) == ISNA(s)

\* Lines 89-95: the observed score; a missing one ends the cell ("continue").
Observe ==
    /\ pc = "observe"
    /\ LET s == get_proportion(current_exprs, minp, marker1, marker2, NA_REAL)
       IN /\ log' = Append(log, Call("get_proportion", mycells[c], current_exprs, NA_REAL, s))
          /\ IF Skip(s)
             THEN /\ pc' = "cell"
                  /\ c' = c + 1
             ELSE /\ pc' = "iterate"
                  /\ UNCHANGED c
          /\ curscore' = s
    /\ UNCHANGED <<inputs, scoreVars, newscore, below, total, it, output,
                   current_exprs, fetched, rng, returned, outmat, oIt, source, i,
                   twinVars, error>>

\* Line 97: one shuffle of the buffer, in place.
Shuffle ==
    /\ pc = "iterate"
    /\ it < nit
    /\ \E p \in Draws(Len(current_exprs)) :
          /\ current_exprs' = Rx_shuffle(current_exprs, p)
          /\ rng' = Drawn(p)
    /\ log' = Append(log, Call("Rx_shuffle", mycells[c], current_exprs', NA_REAL, NA_REAL))
    /\ pc' = "rescore"
    /\ UNCHANGED <<inputs, scoreVars, cellVars, output, c, fetched, returned,
                   outmat, oIt, source, i, twinVars, error>>

CountedAlways(s) == TRUE

\* "if (!ISNA(newscore))": the trial counts.
Counted(s) == ~ISNA(s)

\* Lines 98-102: the shuffled buffer is scored against the observed score.
Rescore ==
    /\ pc = "rescore"
    /\ LET s == get_proportion(current_exprs, minp, marker1, marker2, curscore)
       IN /\ newscore' = s
          /\ below' = IF Counted(s) /\ Less(s, Quot(0, 1)) THEN below + 1 ELSE below
          /\ total' = IF Counted(s) THEN total + 1 ELSE total
          /\ log' = Append(log, Call("get_proportion", mycells[c], current_exprs, curscore, s))
    /\ it' = it + 1
    /\ pc' = "iterate"
    /\ UNCHANGED <<inputs, scoreVars, curscore, output, current_exprs, c, fetched,
                   rng, returned, outmat, oIt, source, i, twinVars, error>>

EnoughStrict(t, m) == t > m

\* "if (total >= minit)"
Enough(t, m) == t >= m

\* Lines 105-108: the cell's entry; the cell's locals go out of scope.
Reduce ==
    /\ pc = "iterate"
    /\ it >= nit
    /\ output' = IF Enough(total, minit)
                 THEN [output EXCEPT ![c] = Quot(below, total)]
                 ELSE output
    /\ c' = c + 1
    /\ pc' = "cell"
    /\ below' = 0
    /\ total' = 0
    /\ it' = 0
    /\ curscore' = NA_REAL
    /\ newscore' = NA_REAL
    /\ UNCHANGED <<inputs, scoreVars, current_exprs, log,
                   fetched, rng, returned, outmat, oIt, source, i, twinVars, error>>

\* Line 110.
Return ==
    /\ pc = "cell"
    /\ c > Len(mycells)
    /\ returned' = Returned(output)
    /\ pc' = "done"
    /\ UNCHANGED <<inputs, scoreVars, cellVars, output, current_exprs, c, log,
                   fetched, rng, outmat, oIt, source, i, twinVars, error>>

\* No call of auto_shuffle is under way.
AutoIdle ==
    /\ invec = <<>>
    /\ niters = 0
    /\ outmat = <<>>
    /\ oIt = 0
    /\ source = [buf |-> "invec", off |-> 0]
    /\ i = 0

\* The state a call starts from, but for its inputs.
CallStart ==
    /\ output = <<>>
    /\ c = 0
    /\ curscore = NA_REAL
    /\ newscore = NA_REAL
    /\ refscore = NA_REAL
    /\ below = 0
    /\ total = 0
    /\ it = 0
    /\ log = <<>>
    /\ fetched = <<>>
    /\ rng = FreshSource
    /\ returned = NotReturned
    /\ error = ""
    /\ first_run = NoRun

\* One wrong entry in a list: the entry at k is x.
Spoil(list, k, x) == [list EXCEPT ![k] = x]

\* The arguments of shuffle_scores: well-formed ones, and well-formed ones with
\* one index out of range or one marker list longer than the other (these with
\* cells to process and the largest iter, miniter and minpair, so that there is
\* work the abort prevents).
EngineInputs ==
    /\ mat \in [1..NCols -> [1..NGenes -> Values]]
    /\ mycells \in SeqsUpTo(1..NCols, MaxCells)
    /\ nit \in 0..MaxIter
    /\ minit \in 0..MaxMinIter
    /\ minp \in 0..1
    /\ threshold = NA_REAL
    /\ \E n \in 0..MaxPairs :
       \E m1 \in [1..n -> 0..(NUsed - 1)], m2 \in [1..n -> 0..(NUsed - 1)],
          u \in [1..NUsed -> 0..(NGenes - 1)] :
          \/ marker1 = m1 /\ marker2 = m2 /\ used = u
          \/ /\ mycells # <<>>
             /\ nit = MaxIter
             /\ minit = MaxMinIter
             /\ minp = 1
             /\ \/ \E k \in 1..n, x \in {-1, NUsed} :
                      marker1 = Spoil(m1, k, x) /\ marker2 = m2 /\ used = u
                \/ \E k \in 1..n, x \in {-1, NUsed} :
                      marker1 = m1 /\ marker2 = Spoil(m2, k, x) /\ used = u
                \/ \E k \in 1..NUsed, x \in {-1, NGenes} :
                      marker1 = m1 /\ marker2 = m2 /\ used = Spoil(u, k, x)
                \/ \E x \in 0..(NUsed - 1) :
                      \/ marker1 = Append(m1, x) /\ marker2 = m2 /\ used = u
                      \/ marker1 = m1 /\ marker2 = Append(m2, x) /\ used = u

\* The state shuffle_scores is called in; r is 0 for a single call.
EngineStart(r) ==
    /\ op = "shuffle_scores"
    /\ pc = "start"
    /\ run = r
    /\ EngineInputs
    /\ current_exprs = <<>>
    /\ CallStart
    /\ AutoIdle

InitEngine == EngineStart(0)

NextEngine ==
    \/ Validate
    \/ Fetch
    \/ Observe
    \/ Shuffle
    \/ Rescore
    \/ Reduce
    \/ Return

SpecEngine == InitEngine /\ [][NextEngine]_vars

(***************************************************************************)
(* auto_shuffle.                                                           *)
(***************************************************************************)
\* The element j (1-based) of the range `source` points to.
SourceAt(j) ==
    IF source.buf = "invec" THEN invec[source.off + j] ELSE outmat[source.off + j]

SourceStays(o) == [buf |-> "invec", off |-> 0]

\* "source=oIt;"
SourceMoved(o) == [buf |-> "outmat", off |-> o]

\* Lines 138-145: the matrix is allocated; source points to the input.
AutoAlloc ==
    /\ pc = "auto"
    /\ outmat' = Rep(0, Len(invec) * niters)
    /\ oIt' = 0
    /\ source' = [buf |-> "invec", off |-> 0]
    /\ i' = 0
    /\ pc' = "auto_copy"
    /\ UNCHANGED <<inputs, refscore, cellVars, output, current_exprs, c, log,
                   fetched, rng, returned, twinVars, error>>

\* Lines 147-148: "std::copy(source, source+N, oIt)".
AutoCopy ==
    /\ pc = "auto_copy"
    /\ i < niters
    /\ outmat' = [k \in 1..Len(outmat) |->
                     IF k \in (oIt + 1)..(oIt + Len(invec))
                     THEN SourceAt(k - oIt) ELSE outmat[k]]
    /\ pc' = "auto_shuffle"
    /\ UNCHANGED <<inputs, refscore, cellVars, output, current_exprs, c, log,
                   fetched, rng, returned, oIt, source, i, twinVars, error>>

\* Lines 149-151: the column is shuffled in place and becomes the next source.
AutoShuffle ==
    /\ pc = "auto_shuffle"
    /\ \E p \in Draws(Len(invec)) :
          /\ outmat' = [k \in 1..Len(outmat) |->
                           IF k \in (oIt + 1)..(oIt + Len(invec))
                           THEN outmat[oIt + p[k - oIt]] ELSE outmat[k]]
          /\ rng' = Drawn(p)
    /\ source' = SourceMoved(oIt)
    /\ oIt' = oIt + Len(invec)
    /\ i' = i + 1
    /\ pc' = "auto_copy"
    /\ UNCHANGED <<inputs, refscore, cellVars, output, current_exprs, c, log,
                   fetched, returned, twinVars, error>>

\* Line 154.
AutoReturn ==
    /\ pc = "auto_copy"
    /\ i >= niters
    /\ returned' = Returned([nrow |-> Len(invec), ncol |-> niters, data |-> outmat])
    /\ pc' = "done"
    /\ UNCHANGED <<inputs, refscore, cellVars, output, current_exprs, c, log,
                   fetched, rng, outmat, oIt, source, i, twinVars, error>>

\* No call of shuffle_scores is under way.
EngineIdle ==
    /\ mat = <<>>
    /\ mycells = <<>>
    /\ used = <<>>
    /\ nit = 0
    /\ minit = 0

\* The state auto_shuffle is called in; r is 0 for a single call.
AutoStart(r) ==
    /\ op = "auto_shuffle"
    /\ pc = "auto"
    /\ run = r
    /\ invec \in SeqsUpTo(Values, MaxN)
    /\ niters \in 0..MaxNits
    /\ outmat = <<>>
    /\ oIt = 0
    /\ source = [buf |-> "invec", off |-> 0]
    /\ i = 0
    /\ EngineIdle
    /\ marker1 = <<>>
    /\ marker2 = <<>>
    /\ minp = 0
    /\ threshold = NA_REAL
    /\ current_exprs = <<>>
    /\ CallStart

InitAuto == AutoStart(0)

NextAuto ==
    \/ AutoAlloc
    \/ AutoCopy
    \/ AutoShuffle
    \/ AutoReturn

SpecAuto == InitAuto /\ [][NextAuto]_vars

(***************************************************************************)
(* The same call twice: once the first call has ended, it is made again    *)
(* with the same arguments, the shuffle source being set back to the state *)
(* it had before the first call.                                           *)
(***************************************************************************)
Rerun ==
    /\ run = 1
    /\ pc \in {"done", "error"}
    /\ first_run' = [pc |-> pc, returned |-> returned, error |-> error,
                     consumed |-> rng.pos]
    /\ run' = 2
    /\ rng' = [rng EXCEPT !.pos = 0]
    /\ pc' = IF op = "auto_shuffle" THEN "auto" ELSE "start"
    /\ output' = <<>>
    /\ current_exprs' = <<>>
    /\ c' = 0
    /\ curscore' = NA_REAL
    /\ newscore' = NA_REAL
    /\ below' = 0
    /\ total' = 0
    /\ it' = 0
    /\ log' = <<>>
    /\ fetched' = <<>>
    /\ returned' = NotReturned
    /\ error' = ""
    /\ outmat' = <<>>
    /\ oIt' = 0
    /\ source' = [buf |-> "invec", off |-> 0]
    /\ i' = 0
    /\ UNCHANGED <<inputs, refscore, op>>

\* The calls that are repeated: auto_shuffle, and shuffle_scores with the
\* largest miniter and either fewer than MaxIter trials per cell or malformed
\* arguments.
InitTwin ==
    \/ /\ EngineStart(1)
       /\ minit = MaxMinIter
       /\ nit < MaxIter \/ ValidationError # ""
    \/ AutoStart(1)

NextTwin ==
    \/ NextEngine
    \/ NextAuto
    \/ Rerun

SpecTwin == InitTwin /\ [][NextTwin]_vars

(***************************************************************************)
(* get_proportion on its own: one vector is scored without a threshold,    *)
(* then with one, as lines 89 and 98 do.  The marker lists are runs of a   *)
(* repeated pair, long enough for was_total to reach the check's period.   *)
(***************************************************************************)
RunLens == {1, CheckEvery - 1, CheckEvery}

RunPairs == (0..(NExpr - 1)) \X (0..(NExpr - 1))

RunLists == SeqsUpTo(RunPairs \X RunLens, MaxRuns)

RECURSIVE Expand(_, _)
\* The marker list of a list of runs: side 1 or 2 of each run's pair, repeated.
Expand(runs, side) ==
    IF runs = <<>> THEN <<>>
    ELSE Rep(runs[1][1][side], runs[1][2]) \o Expand(Tail(runs), side)

\* Thresholds: the fractions n/d up to 1 + 1/d, and NaN.
Thresholds == {Quot(n, d) : n \in 0..(MaxDen + 1), d \in 1..MaxDen} \cup {NaN}

InitScore ==
    /\ op = "get_proportion"
    /\ pc = "input"
    /\ run = 0
    /\ current_exprs \in [1..NExpr -> Values]
    /\ \E runs \in RunLists :
          /\ marker1 = Expand(runs, 1)
          /\ marker2 = Expand(runs, 2)
    /\ minp \in 0..MaxMinPairs
    /\ threshold \in Thresholds \cup {NA_REAL}
    /\ EngineIdle
    /\ AutoIdle
    /\ CallStart

\* The threshold of the short-cut call: the one given, or the observed score.
ThresholdUsed == IF ISNA(threshold) THEN curscore ELSE threshold

\* The call of line 89: no threshold.
ScoreObserved ==
    /\ pc = "input"
    /\ curscore' = get_proportion(current_exprs, minp, marker1, marker2, NA_REAL)
    /\ pc' = "observed"
    /\ UNCHANGED <<inputs, refscore, newscore, below, total, it, output,
                   current_exprs, c, log, fetched, rng, returned, outmat, oIt,
                   source, i, twinVars, error>>

\* The call of line 98, and the same call with the early-exit block taken out.
ScoreShortCut ==
    /\ pc = "observed"
    /\ ~ISNA(ThresholdUsed)
    /\ newscore' = get_proportion(current_exprs, minp, marker1, marker2, ThresholdUsed)
    /\ refscore' = get_proportion_full(current_exprs, minp, marker1, marker2, ThresholdUsed)
    /\ pc' = "judged"
    /\ UNCHANGED <<inputs, curscore, below, total, it, output, current_exprs, c,
                   log, fetched, rng, returned, outmat, oIt, source, i, twinVars,
                   error>>

NextScore ==
    \/ ScoreObserved
    \/ ScoreShortCut

SpecScore == InitScore /\ [][NextScore]_vars

(***************************************************************************)
(* Claims about get_proportion, under SpecScore.                           *)
(***************************************************************************)
\* The pairs that differ, and those whose first value is the greater, counted
\* from the lists and not by the loop.
ComparedPairs ==
    {k \in 1..Len(marker1) :
        current_exprs[marker1[k] + 1] # current_exprs[marker2[k] + 1]}

FirstGreaterPairs ==
    {k \in 1..Len(marker1) :
        current_exprs[marker1[k] + 1] > current_exprs[marker2[k] + 1]}

AllTied == ComparedPairs = {}

\* The short-cut call left its loop by one of the two early returns.
EarlyExitTaken ==
    PairLoop(current_exprs, minp, marker1, marker2, ThresholdUsed, TRUE,
             LoopStart, 0, Len(marker1) - 1).returned

\* C1 as stated: with any minpairs and any threshold that is not missing, the
\* short-cut call returns what it returns with the early-exit block taken out.
C1_EarlyExitAgreesAlways ==
    pc = "judged" => newscore = refscore

\* C1, amended: when minpairs is at least 1, or the threshold is at most 1 or
\* NaN (as every threshold line 98 passes is), the short-cut call returns what
\* it returns with the early-exit block taken out: Below, AtOrAbove or missing.
C1_EarlyExitAgrees ==
    (/\ pc = "judged"
     /\ \/ minp >= 1
        \/ LessEq(ThresholdUsed, Quot(1, 1))
        \/ ThresholdUsed.kind = "NaN")
    => newscore = refscore

\* An early return was taken with pairs left over, and it was the right answer.
C1_Witness ==
    /\ pc = "judged"
    /\ minp >= 1
    /\ EarlyExitTaken
    /\ Cardinality(ComparedPairs) > CheckEvery
    /\ newscore = Below

\* C2: when the unthresholded score s is not missing, the call with threshold s
\* returns AtOrAbove, and the call with a threshold strictly greater than s
\* returns Below.
C2_ThresholdAtAndAboveScore ==
    (pc = "judged" /\ ~ISNA(curscore))
    => /\ ISNA(threshold) => newscore = AtOrAbove
       /\ Less(curscore, ThresholdUsed) => newscore = Below

\* The score of a list long enough for the early-exit check was its own threshold.
C2_Witness ==
    /\ pc = "judged"
    /\ ISNA(threshold)
    /\ curscore.kind = "num"
    /\ Cardinality(ComparedPairs) >= CheckEvery
    /\ newscore = AtOrAbove

\* C3: without a threshold the result is firstGreater/compared, where compared
\* counts the pairs whose values differ and firstGreater those whose first
\* value is the greater; it is missing whenever compared < minpairs, so that a
\* result that is not missing has compared >= minpairs.  The example of the
\* specification scores 1.
C3_UnthresholdedScore ==
    /\ pc # "input" =>
          /\ curscore = IF Cardinality(ComparedPairs) < minp
                        THEN NA_REAL
                        ELSE Quot(Cardinality(FirstGreaterPairs), Cardinality(ComparedPairs))
          /\ ~ISNA(curscore) => Cardinality(ComparedPairs) >= minp
    /\ get_proportion(<<5, 3, 3, 1>>, 2, <<0, 1, 2>>, <<1, 2, 3>>, NA_REAL) = Quot(1, 1)

\* A list with tied pairs and compared pairs was scored.
C3_Witness ==
    /\ pc = "observed"
    /\ curscore.kind = "num"
    /\ Cardinality(ComparedPairs) < Len(marker1)
    /\ Cardinality(FirstGreaterPairs) >= 1

\* C4 as stated: an all-tied vector scores missing whatever minpairs is, with
\* and without a threshold.
C4_AllTiedMissingAlways ==
    (pc # "input" /\ AllTied)
    => /\ ISNA(curscore)
       /\ pc = "judged" => ISNA(newscore)

\* C4, amended: for every minpairs >= 1 an all-tied vector scores missing, with
\* and without a threshold.
C4_AllTiedMissing ==
    (pc # "input" /\ AllTied /\ minp >= 1)
    => /\ ISNA(curscore)
       /\ pc = "judged" => ISNA(newscore)

\* An all-tied list long enough for the early-exit check was scored in
\* short-cut mode.
C4_Witness ==
    /\ pc = "judged"
    /\ AllTied
    /\ minp >= 1
    /\ Len(marker1) >= CheckEvery
    /\ ISNA(newscore)

(***************************************************************************)
(* Claims about shuffle_scores_internal, under SpecEngine.                 *)
(***************************************************************************)
\* The arguments are malformed: lists of different lengths, a marker index
\* outside [0, nused), or a used index outside [0, ngenes).
InvalidInput ==
    \/ Len(marker1) # Len(marker2)
    \/ \E k \in 1..Len(marker1) : marker1[k] \notin 0..(Len(used) - 1)
    \/ \E k \in 1..Len(marker2) : marker2[k] \notin 0..(Len(used) - 1)
    \/ \E k \in 1..Len(used) : used[k] \notin 0..(NGenes - 1)

\* C5: malformed arguments abort the call with an error before any column is
\* fetched and before any shuffle is drawn, and no output is returned.
C5_InvalidInputAborts ==
    InvalidInput
    => /\ pc \in {"start", "error"}
       /\ pc = "error" => error # ""
       /\ fetched = <<>>
       /\ log = <<>>
       /\ rng = FreshSource
       /\ output = <<>>
       /\ returned = NotReturned

\* The call was aborted for a marker index one past the end of the used list,
\* with cells to process and shuffles to draw.
C5_Witness ==
    /\ pc = "error"
    /\ \E k \in 1..Len(marker1) : marker1[k] = Len(used)
    /\ mycells # <<>>
    /\ nit > 0

\* The current cell's calls of get_proportion with a threshold: the trials.
Trials == {k \in 3..Len(log) : log[k].op = "get_proportion"}

ValidTrials == {k \in Trials : ~ISNA(log[k].result)}

BelowTrials == {k \in ValidTrials : log[k].result = Below}

\* The entry of the cell whose calls the log holds, from the results of the calls.
ExpectedEntry ==
    IF ISNA(log[2].result) \/ Cardinality(ValidTrials) < minit
    THEN NA_REAL
    ELSE Quot(Cardinality(BelowTrials), Cardinality(ValidTrials))

\* The cell at c - 1 has just been finished.
CellFinished == pc \in {"cell", "done"} /\ c >= 2

C6_Entries ==
    /\ pc \notin {"start", "error"} => Len(output) = Len(mycells)
    /\ CellFinished => output[c - 1] = ExpectedEntry
    /\ \A k \in 1..Len(output) : k >= c => ISNA(output[k])
    /\ pc = "done" => /\ returned = Returned(output)
                      /\ fetched = mycells
                      /\ c = Len(mycells) + 1

C6_EntriesKept ==
    \A k \in 1..Len(output) : k < c => output'[k] = output[k]

\* C6: the call returns one entry per requested cell, in request order; a
\* cell's entry is missing if its observed score is missing or fewer than
\* miniter trials were not missing, and is belowCount/validCount otherwise; an
\* entry, missing or not, is never touched while later cells are processed.
C6_OutputEntries == []C6_Entries /\ [][C6_EntriesKept]_vars

\* A cell got a score although one of its trials was missing.
C6_Witness ==
    /\ CellFinished
    /\ ~ISNA(output[c - 1])
    /\ ValidTrials # Trials
    /\ \E k \in 1..Len(output) : ISNA(output[k])

\* C7: per cell, in request order: one fetch of the column, one call of
\* get_proportion without a threshold, and, unless that score is missing, at
\* most iter trials, each one shuffle followed by one call of get_proportion on
\* the shuffled buffer with the observed score as its threshold.
C7_CallOrder ==
    /\ fetched = SubSeq(mycells, 1, Len(fetched))
    /\ pc \in {"observe", "iterate", "rescore"} => Len(fetched) = c
    /\ pc \in {"cell", "done"} => Len(fetched) = c - 1
    /\ CellFinished => Len(log) >= 2
    /\ log # <<>> =>
          /\ log[1].op = "get_const_col"
          /\ log[1].cell = fetched[Len(fetched)]
          /\ Len(log) <= 2 + 2 * nit
          /\ Len(log) >= 2 =>
                /\ log[2].op = "get_proportion"
                /\ ISNA(log[2].threshold)
                /\ ISNA(log[2].result) => Len(log) = 2
          /\ \A k \in 3..Len(log) :
                IF k % 2 = 1
                THEN log[k].op = "Rx_shuffle"
                ELSE /\ log[k].op = "get_proportion"
                     /\ log[k].threshold = log[2].result
                     /\ log[k].expr = log[k - 1].expr

\* A cell had iter = 2 trials after a cell that was skipped.
C7_Witness ==
    /\ Len(log) = 6
    /\ Len(fetched) = 2
    /\ rng.pos = 2

\* The used genes' values of a cell's column, in the order of `used`.
ColumnSubset(cell) == [k \in 1..Len(used) |-> mat[cell][used[k] + 1]]

SameValues(a, b) ==
    /\ Len(a) = Len(b)
    /\ \A v \in Values :
          Cardinality({k \in 1..Len(a) : a[k] = v}) = Cardinality({k \in 1..Len(b) : b[k] = v})

\* C10: the buffer scored as a cell's observed score is the gather of that
\* cell's own column, whatever was shuffled before, so that the observed score
\* is that of the column; the buffer of every trial holds the same values.
C10_NoLeakBetweenCells ==
    \A k \in 1..Len(log) :
       log[k].op = "get_proportion" =>
          IF ISNA(log[k].threshold)
          THEN /\ log[k].expr = ColumnSubset(log[k].cell)
               /\ log[k].result = get_proportion(ColumnSubset(log[k].cell), minp,
                                                 marker1, marker2, NA_REAL)
          ELSE SameValues(log[k].expr, ColumnSubset(log[k].cell))

\* A second cell, of another column, is scored after the buffer was shuffled
\* out of the gathered order for the first.
C10_Witness ==
    /\ Len(fetched) = 2
    /\ mycells[1] # mycells[2]
    /\ Len(log) = 2
    /\ rng.pos > 0
    /\ ColumnSubset(mycells[1]) # ColumnSubset(mycells[2])
    /\ ~SameValues(ColumnSubset(mycells[1]), ColumnSubset(mycells[2]))

(***************************************************************************)
(* Claims about auto_shuffle, under SpecAuto.                              *)
(***************************************************************************)
\* Column j (0-based) of the matrix.
Column(j) == [k \in 1..Len(invec) |-> outmat[j * Len(invec) + k]]

\* The vector column j was copied from.
Previous(j) == IF j = 0 THEN invec ELSE Column(j - 1)

C8_Columns ==
    /\ pc # "auto" => Len(outmat) = Len(invec) * niters
    /\ \A j \in 0..(i - 1) : SameValues(Column(j), Previous(j))
    /\ pc = "auto_shuffle" => Column(i) = Previous(i)
    /\ pc = "done" => /\ i = niters
                      /\ returned = Returned([nrow |-> Len(invec), ncol |-> niters,
                                              data |-> outmat])

C8_Kept ==
    /\ invec' = invec
    /\ \A j \in 0..(i - 1) : Column(j)' = Column(j)

\* C8: the matrix has one row per element of the input and nits columns;
\* column 0 is a copy of the input, shuffled, and column j a copy of column
\* j - 1, shuffled, so that each holds the values of the one before; the input
\* and the columns already made are not changed by later iterations.
C8_CascadingColumns == []C8_Columns /\ [][C8_Kept]_vars

\* Two shuffles in a row each changed the order of the values.
C8_Witness ==
    /\ pc = "done"
    /\ niters >= 2
    /\ Column(0) # invec
    /\ Column(1) # Column(0)
    /\ Column(1) # invec

(***************************************************************************)
(* Claim about repeated calls, under SpecTwin.                             *)
(***************************************************************************)
\* C9: a call of shuffle_scores or auto_shuffle repeated with the same
\* arguments from the same state of the shuffle source ends as the first one
\* did, returns the same vector or matrix, and leaves the source in the same
\* state.
C9_RepeatedCallAgrees ==
    (run = 2 /\ pc \in {"done", "error"})
    => /\ pc = first_run.pc
       /\ error = first_run.error
       /\ returned = first_run.returned
       /\ rng.pos = first_run.consumed
       /\ Len(rng.drawn) = first_run.consumed

\* A call of shuffle_scores that shuffled for one cell and skipped another was
\* repeated.
C9_Witness ==
    /\ run = 2
    /\ pc = "done"
    /\ op = "shuffle_scores"
    /\ rng.pos >= 1
    /\ \E k \in 1..Len(output) : ~ISNA(output[k])
    /\ \E k \in 1..Len(output) : ISNA(output[k])

====
